---- MODULE Spec2Model ----
(***************************************************************************)
(* Enviforge License API (src/main.py): the license codec, the trial/owner *)
(* ledger (trials.json), the paid license registry (licenses.json) and the *)
(* admin audit log, as a state machine with one action per HTTP handler.   *)
(*                                                                         *)
(* Text is modelled as a sequence of atoms (records [c, n]): Ch("x") is a  *)
(* piece of literal text, Num(t) the digits of the instant t, Rnd(k) the   *)
(* k-th draw of secrets.token_urlsafe.  Instants are whole days.           *)
(***************************************************************************)
EXTENDS Integers, Sequences, FiniteSets, TLC

VARIABLES now, trials, licenses, admin_log, admin_token, ctr, resp, retired, origin,
          inflight

vars == <<now, trials, licenses, admin_log, admin_token, ctr, resp, retired, origin,
          inflight>>

----------------------------------------------------------------------------
(* Text atoms *)

Ch(s) == [c |-> s, n |-> 0]
Num(t) == [c |-> "#", n |-> t]
Rnd(k) == [c |-> "~", n |-> k]

MARKER == Ch("ENVIFORGE")
DELIM == Ch("|")
SPACE == Ch(" ")
COMMA == Ch(",")
UTC_OFFSET == Ch("+00:00")

(* Program constants *)
COOLDOWN_DAYS == 7
TRIAL_DAYS == 30
OWNER_DAYS == 365 * 20

(* Bounds of the model *)
MaxTokens == 2
MaxLog == 1

----------------------------------------------------------------------------
(* Request inputs *)

M1 == <<Ch("m1")>>
M2 == <<Ch("m2")>>
O1 == <<Ch("o1")>>
MachineIds == {M1, M2, O1}

P == <<Ch("p")>>
Q == <<Ch("q")>>
Products == {P, Q}

EmailA == <<Ch("a"), Ch("@")>>
EmailAUpper == <<SPACE, Ch("A"), Ch("@")>>
EmailB == <<Ch("b"), Ch("@")>>
EmailBad == <<Ch("a")>>
Emails == {EmailA, EmailAUpper, EmailB, EmailBad}

NONE == <<>>

(* ENVIFORGE_OWNER_MIDS and ENVIFORGE_ADMIN_TOKEN as configured *)
OWNER_MIDS_RAW == <<SPACE, Ch("o1"), COMMA, SPACE>>
ADMIN_SECRET == <<Ch("adm")>>

(* The instants the clock is observed at: the boundaries the handlers compare with *)
TimePoints ==
    {0, 1, COOLDOWN_DAYS, COOLDOWN_DAYS + 1, TRIAL_DAYS, TRIAL_DAYS + 1,
     OWNER_DAYS, OWNER_DAYS + 1}

----------------------------------------------------------------------------
(* str helpers *)

RECURSIVE lstrip(_)
lstrip(s) == IF s # <<>> /\ Head(s) = SPACE THEN lstrip(Tail(s)) ELSE s

RECURSIVE rstrip(_)
rstrip(s) ==
    IF s # <<>> /\ s[Len(s)] = SPACE THEN rstrip(SubSeq(s, 1, Len(s) - 1)) ELSE s

strip(s) == rstrip(lstrip(s))

lower_ch(a) ==
    IF a = Ch("A") THEN Ch("a") ELSE IF a = Ch("B") THEN Ch("b") ELSE a

lower(s) == [i \in 1..Len(s) |-> lower_ch(s[i])]

Contains(s, a) == \E i \in 1..Len(s) : s[i] = a

(* str.split(d): the fields between the occurrences of d *)
RECURSIVE split(_, _)
split(s, d) ==
    IF \A i \in 1..Len(s) : s[i] # d
    THEN <<s>>
    ELSE LET i == CHOOSE j \in 1..Len(s) : s[j] = d /\ \A k \in 1..(j - 1) : s[k] # d
         IN <<SubSeq(s, 1, i - 1)>> \o split(SubSeq(s, i + 1, Len(s)), d)

SeqToSet(s) == {s[i] : i \in 1..Len(s)}

----------------------------------------------------------------------------
(* datetime helpers: a datetime is [t, aware]; an optional one is <<>> or <<dt>> *)

utcnow == [t |-> now, aware |-> TRUE]

plus_days(dt, d) == [t |-> dt.t + d, aware |-> dt.aware]

isoformat(dt) == <<Num(dt.t)>> \o (IF dt.aware THEN <<UTC_OFFSET>> ELSE <<>>)

fromisoformat_ok(s) ==
    /\ Len(s) \in {1, 2}
    /\ s[1].c = "#"
    /\ Len(s) = 2 => s[2] = UTC_OFFSET

fromisoformat(s) == [t |-> s[1].n, aware |-> Len(s) = 2]

as_utc(dt) == IF dt.aware THEN dt ELSE [dt EXCEPT !.aware = TRUE]

parse_dt(ts) ==
    IF ts = NONE THEN <<>>
    ELSE IF fromisoformat_ok(ts) THEN <<as_utc(fromisoformat(ts))>>
    ELSE <<>>

----------------------------------------------------------------------------
(* License codec *)

fmt_license(machine_id, product, exp_iso, k) ==
    <<MARKER, DELIM>> \o product \o <<DELIM>> \o machine_id \o <<DELIM>>
        \o exp_iso \o <<DELIM, Rnd(k)>>

make_license(machine_id, product, days, k) ==
    fmt_license(machine_id, product, isoformat(plus_days(utcnow, days)), k)

(* Mutant: the rebind token restarts the entitlement window at the rebind *)
make_license_with_exp_mut(machine_id, product, exp, k) ==
    make_license(machine_id, product, TRIAL_DAYS, k)

make_license_with_exp(machine_id, product, exp, k) ==
    fmt_license(machine_id, product, isoformat(as_utc(exp)), k)

parse_license_ok(license_text) ==
    LET parts == split(strip(license_text), DELIM)
    IN /\ Len(parts) = 5
       /\ parts[1] = <<MARKER>>
       /\ fromisoformat_ok(parts[4])

parse_license(license_text) ==
    LET parts == split(strip(license_text), DELIM)
    IN [product |-> parts[2],
        machine_id |-> parts[3],
        exp |-> as_utc(fromisoformat(parts[4])),
        token |-> parts[5]]

(* Mutant: emails are trimmed and compared with their case kept *)
email_norm_mut(s) == strip(s)

email_norm(s) == lower(strip(s))

owner_set ==
    LET items == split(OWNER_MIDS_RAW, COMMA)
    IN IF OWNER_MIDS_RAW = <<>> THEN {}
       ELSE {strip(items[i]) : i \in 1..Len(items)} \ {<<>>}

is_owner(machine_id) == strip(machine_id) \in owner_set

----------------------------------------------------------------------------
(* Responses: one shape for every handler; unused fields stay empty *)

Resp0 ==
    [op |-> "init", status |-> "", machine_id |-> NONE, product |-> NONE,
     email |-> NONE, license |-> NONE, expires_at |-> NONE,
     issued_at |-> NONE, plan |-> "", license_type |-> "", next_allowed |-> NONE,
     seats_total |-> 0, active_mids |-> <<>>, deleted |-> <<>>, mail |-> ""]

(* What the notifier call inside trial() can do *)
MailOutcomes == {"off", "sent", "rejected", "unreachable"}

or_default(v, d) == IF v = "" THEN d ELSE v

has_trial(machine_id) == machine_id \in DOMAIN trials

dict_put(d, k, v) == [x \in DOMAIN d \cup {k} |-> IF x = k THEN v ELSE d[x]]

dict_pop(d, k) == [x \in DOMAIN d \ {k} |-> d[x]]

(* An outcome of a ledger handler: the response, the ledger it leaves on disk,
   and how many random suffixes were drawn *)
Out(r, t, drawn) == [resp |-> r, trials |-> t, drawn |-> drawn]

----------------------------------------------------------------------------
(* Trial / owner ledger *)

record_and_return(op, machine_id, product, lic, plan, license_type) ==
    IF ~parse_license_ok(lic)
    THEN Out([Resp0 EXCEPT !.op = op, !.status = "InternalError"], trials, 1)
    ELSE LET exp_iso == isoformat(parse_license(lic).exp)
             prev_issued == IF has_trial(machine_id) THEN trials[machine_id].issued_at
                            ELSE NONE
             rec == [product |-> product,
                     license |-> lic,
                     issued_at |-> IF prev_issued # NONE THEN prev_issued
                                   ELSE isoformat(utcnow),
                     expires_at |-> exp_iso,
                     plan |-> plan,
                     license_type |-> license_type]
         IN Out([Resp0 EXCEPT !.op = op, !.status = "ok", !.machine_id = machine_id,
                              !.product = product, !.license = lic,
                              !.expires_at = exp_iso, !.plan = plan,
                              !.license_type = license_type],
                dict_put(trials, machine_id, rec), 1)

trial_owner(op, machine_id, product) ==
    LET lic == IF has_trial(machine_id) THEN trials[machine_id].license ELSE NONE
        exp_iso == IF has_trial(machine_id) THEN trials[machine_id].expires_at ELSE NONE
        exp_dt == parse_dt(exp_iso)
    IN IF lic # NONE /\ exp_dt # <<>> /\ utcnow.t <= exp_dt[1].t
       THEN Out([Resp0 EXCEPT !.op = op, !.status = "ok", !.machine_id = machine_id,
                              !.product = product, !.license = lic,
                              !.expires_at = isoformat(exp_dt[1]),
                              !.plan = or_default(trials[machine_id].plan, "owner"),
                              !.license_type =
                                  or_default(trials[machine_id].license_type, "owner")],
                trials, 0)
       ELSE record_and_return(op, machine_id, product,
                              make_license(machine_id, product, OWNER_DAYS, ctr),
                              "owner", "owner")

mail_field(email, mail) ==
    IF mail = "off" \/ email = NONE THEN ""
    ELSE IF mail = "sent" THEN "status:200"
    ELSE IF mail = "rejected" THEN "status:422"
    ELSE "error"

(* Mutant: the validity test off by one at the expiry instant *)
still_valid_mut(exp_dt) == utcnow.t < exp_dt.t

(* "if _utcnow() <= exp_dt": the stored trial is still valid *)
still_valid(exp_dt) == utcnow.t <= exp_dt.t

(* Mutant: an expired trial is renewed instead of refused *)
trial_used_mut(op, machine_id, product, existing) ==
    record_and_return(op, machine_id, product,
                      make_license(machine_id, product, TRIAL_DAYS, ctr),
                      "trial", "trial")

(* "expirou -> trial usado": the 409 raised for an expired trial *)
trial_used(op, machine_id, product, existing) ==
    Out([Resp0 EXCEPT !.op = op, !.status = "TrialAlreadyUsed",
                      !.issued_at = existing.issued_at,
                      !.expires_at = existing.expires_at],
        trials, 0)

trial_normal(op, machine_id, product, email, mail) ==
    IF has_trial(machine_id)
    THEN LET existing == trials[machine_id]
             exp_dt == parse_dt(existing.expires_at)
         IN IF exp_dt = <<>>
            THEN Out([Resp0 EXCEPT !.op = op, !.status = "TrialAlreadyUsed",
                                   !.expires_at = existing.expires_at],
                     trials, 0)
            ELSE IF still_valid(exp_dt[1])
            THEN Out([Resp0 EXCEPT !.op = op, !.status = "ok",
                                   !.machine_id = machine_id,
                                   !.license = existing.license,
                                   !.expires_at = isoformat(exp_dt[1]),
                                   !.product = IF existing.product # NONE
                                               THEN existing.product ELSE product,
                                   !.plan = or_default(existing.plan, "trial"),
                                   !.license_type =
                                       or_default(existing.license_type, "trial")],
                     trials, 0)
            ELSE trial_used(op, machine_id, product, existing)
    ELSE LET o == record_and_return(op, machine_id, product,
                                    make_license(machine_id, product, TRIAL_DAYS, ctr),
                                    "trial", "trial")
         IN IF o.resp.status = "ok"
            THEN [o EXCEPT !.resp.mail = mail_field(email, mail)]
            ELSE o

(* Mutant: the owner test is lost and every machine takes the owner branch *)
trial_mut(op, machine_id, product, email, mail) ==
    trial_owner(op, machine_id, product)

trial(op, machine_id, product, email, mail) ==
    IF is_owner(machine_id)
    THEN trial_owner(op, machine_id, product)
    ELSE trial_normal(op, machine_id, product, email, mail)

(* Mutant: every machine, not only an owner one, is routed through trial() *)
recover_license_mut(machine_id, product) ==
    trial("recover_license", machine_id, product, NONE, "off")

recover_license(machine_id, product) ==
    IF is_owner(machine_id)
    THEN trial("recover_license", machine_id, product, NONE, "off")
    ELSE IF ~has_trial(machine_id)
    THEN Out([Resp0 EXCEPT !.op = "recover_license", !.status = "NotFound"],
             trials, 0)
    ELSE LET existing == trials[machine_id]
             exp_dt == parse_dt(existing.expires_at)
         IN IF exp_dt = <<>>
            THEN Out([Resp0 EXCEPT !.op = "recover_license",
                                   !.status = "InvalidRecord"],
                     trials, 0)
            ELSE IF utcnow.t > exp_dt[1].t
            THEN Out([Resp0 EXCEPT !.op = "recover_license", !.status = "Expired",
                                   !.expires_at = existing.expires_at,
                                   !.plan = or_default(existing.plan, "trial"),
                                   !.license_type =
                                       or_default(existing.license_type, "trial")],
                     trials, 0)
            ELSE Out([Resp0 EXCEPT !.op = "recover_license", !.status = "ok",
                                   !.machine_id = machine_id,
                                   !.license = existing.license,
                                   !.expires_at = isoformat(exp_dt[1]),
                                   !.product = IF existing.product # NONE
                                               THEN existing.product ELSE product,
                                   !.plan = or_default(existing.plan, "trial"),
                                   !.license_type =
                                       or_default(existing.license_type, "trial")],
                     trials, 0)

----------------------------------------------------------------------------
(* Paid license registry: licenses.json is a dict in insertion order, modelled
   as a sequence of entries [key, rec] *)

keys_of(db) == [i \in 1..Len(db) |-> db[i].key]

has_key(db, k) == \E i \in 1..Len(db) : db[i].key = k

db_get(db, k) == db[CHOOSE i \in 1..Len(db) : db[i].key = k].rec

(* d[k] = v: in place when k is present, appended otherwise *)
db_set(db, k, v) ==
    IF has_key(db, k)
    THEN [i \in 1..Len(db) |-> IF db[i].key = k THEN [key |-> k, rec |-> v] ELSE db[i]]
    ELSE Append(db, [key |-> k, rec |-> v])

db_pop(db, k) == SelectSeq(db, LAMBDA e : e.key # k)

seats_used(rec) == Len(rec.active_mids)

POut(r, db, drawn) == [resp |-> r, licenses |-> db, drawn |-> drawn]

(* Mutant: a paid license is expired from its expiry instant on *)
validate_paid_mut(license, machine_id, product) ==
    LET paid == db_get(licenses, license)
        exp_dt == parse_dt(paid.expires_at)
        r == [Resp0 EXCEPT !.op = "validate"]
    IN IF paid.product # product THEN [r EXCEPT !.status = "ProductMismatch"]
       ELSE IF exp_dt = <<>> THEN [r EXCEPT !.status = "InvalidRecord"]
       ELSE IF utcnow.t >= exp_dt[1].t
       THEN [r EXCEPT !.status = "Expired", !.expires_at = isoformat(exp_dt[1])]
       ELSE IF ~Contains(paid.active_mids, machine_id)
       THEN [r EXCEPT !.status = "SeatNotBound"]
       ELSE [r EXCEPT !.status = "valid", !.machine_id = machine_id,
                      !.expires_at = isoformat(exp_dt[1]),
                      !.plan = or_default(paid.plan, "paid"),
                      !.license_type = or_default(paid.license_type, "paid")]

validate_paid(license, machine_id, product) ==
    LET paid == db_get(licenses, license)
        exp_dt == parse_dt(paid.expires_at)
        r == [Resp0 EXCEPT !.op = "validate"]
    IN IF paid.product # product THEN [r EXCEPT !.status = "ProductMismatch"]
       ELSE IF exp_dt = <<>> THEN [r EXCEPT !.status = "InvalidRecord"]
       ELSE IF utcnow.t > exp_dt[1].t
       THEN [r EXCEPT !.status = "Expired", !.expires_at = isoformat(exp_dt[1])]
       ELSE IF ~Contains(paid.active_mids, machine_id)
       THEN [r EXCEPT !.status = "SeatNotBound"]
       ELSE [r EXCEPT !.status = "valid", !.machine_id = machine_id,
                      !.expires_at = isoformat(exp_dt[1]),
                      !.plan = or_default(paid.plan, "paid"),
                      !.license_type = or_default(paid.license_type, "paid")]

validate_legacy(license, machine_id, product) ==
    LET r == [Resp0 EXCEPT !.op = "validate"]
    IN IF ~parse_license_ok(license) THEN [r EXCEPT !.status = "MalformedToken"]
       ELSE LET parsed == parse_license(license)
                listed == has_trial(machine_id)
                              /\ trials[machine_id].license = license
                plan == IF listed THEN trials[machine_id].plan ELSE ""
                license_type == IF listed THEN trials[machine_id].license_type ELSE ""
            IN IF parsed.product # product
               THEN [r EXCEPT !.status = "ProductMismatch"]
               ELSE IF parsed.machine_id # machine_id
               THEN [r EXCEPT !.status = "MachineMismatch"]
               ELSE IF utcnow.t > parsed.exp.t
               THEN [r EXCEPT !.status = "Expired",
                              !.expires_at = isoformat(parsed.exp)]
               ELSE IF plan = "" /\ is_owner(machine_id)
               THEN [r EXCEPT !.status = "valid", !.machine_id = machine_id,
                              !.expires_at = isoformat(parsed.exp),
                              !.plan = "owner", !.license_type = "owner"]
               ELSE [r EXCEPT !.status = "valid", !.machine_id = machine_id,
                              !.expires_at = isoformat(parsed.exp),
                              !.plan = plan, !.license_type = license_type]

(* Mutant: every token is validated by its text, paid keys too *)
validate_mut(license, machine_id, product) ==
    validate_legacy(license, machine_id, product)

validate(license, machine_id, product) ==
    IF has_key(licenses, license)
    THEN validate_paid(license, machine_id, product)
    ELSE validate_legacy(license, machine_id, product)

activate(machine_id, email, product, seats_total, days) ==
    LET r == [Resp0 EXCEPT !.op = "activate"]
        lic == make_license(machine_id, product, days, ctr)
    IN IF seats_total < 1 \/ days < 1 \/ ~Contains(email, Ch("@"))
       THEN POut([r EXCEPT !.status = "InvalidArgument"], licenses, 0)
       ELSE IF ~parse_license_ok(lic)
       THEN POut([r EXCEPT !.status = "InternalError"], licenses, 1)
       ELSE LET exp == parse_license(lic).exp
                rec == [product |-> product,
                        email |-> email_norm(email),
                        license |-> lic,
                        issued_at |-> isoformat(utcnow),
                        expires_at |-> isoformat(exp),
                        plan |-> "paid",
                        license_type |-> "paid",
                        seats_total |-> seats_total,
                        active_mids |-> <<machine_id>>,
                        last_change_at |-> NONE]
            IN POut([r EXCEPT !.status = "activated", !.machine_id = machine_id,
                              !.product = product, !.email = email_norm(email),
                              !.seats_total = seats_total,
                              !.expires_at = isoformat(exp), !.license = lic],
                    db_set(licenses, lic, rec), 1)

(* The records the scan of pull_license does not skip *)
(* Mutant: the scan does not skip expired records *)
pull_candidate_mut(rec, email_n, product) ==
    rec.product = product /\ email_norm(rec.email) = email_n

pull_candidate(rec, email_n, product) ==
    /\ rec.product = product
    /\ email_norm(rec.email) = email_n
    /\ parse_dt(rec.expires_at) # <<>>
    /\ utcnow.t <= parse_dt(rec.expires_at)[1].t

(* Mutant: the seat test off by one *)
seat_free_mut(active_mids, seats_total) == Len(active_mids) <= seats_total

(* "if len(active_mids) < seats_total": a seat is still free *)
seat_free(active_mids, seats_total) == Len(active_mids) < seats_total

(* Mutant: the scan goes on past a full record to the first record that seats
   the machine or has a free seat *)
pull_license_mut(email, machine_id, product) ==
    LET email_n == email_norm(email)
        r == [Resp0 EXCEPT !.op = "pull_license"]
        cap(rec) == IF rec.seats_total = 0 THEN 1 ELSE rec.seats_total
        hits == {i \in 1..Len(licenses) :
                     pull_candidate(licenses[i].rec, email_n, product)}
        usable == {i \in hits :
                      \/ Contains(licenses[i].rec.active_mids, machine_id)
                      \/ seat_free(licenses[i].rec.active_mids, cap(licenses[i].rec))}
        first(S) == CHOOSE j \in S : \A k \in S : j <= k
    IN IF hits = {}
       THEN POut([r EXCEPT !.status = "NotFound"], licenses, 0)
       ELSE IF usable = {}
       THEN POut([r EXCEPT !.status = "SeatLimitReached",
                           !.seats_total = cap(licenses[first(hits)].rec),
                           !.active_mids = licenses[first(hits)].rec.active_mids],
                 licenses, 0)
       ELSE LET rec == licenses[first(usable)].rec
                ok == [r EXCEPT !.status = "ok", !.machine_id = machine_id,
                                !.license = licenses[first(usable)].key,
                                !.expires_at = isoformat(parse_dt(rec.expires_at)[1]),
                                !.plan = or_default(rec.plan, "paid"),
                                !.license_type = or_default(rec.license_type, "paid")]
            IN IF Contains(rec.active_mids, machine_id)
               THEN POut(ok, licenses, 0)
               ELSE POut(ok,
                         db_set(licenses, licenses[first(usable)].key,
                                [rec EXCEPT !.active_mids =
                                                Append(rec.active_mids, machine_id)]),
                         0)

pull_license(email, machine_id, product) ==
    LET email_n == email_norm(email)
        r == [Resp0 EXCEPT !.op = "pull_license"]
        hits == {i \in 1..Len(licenses) :
                     pull_candidate(licenses[i].rec, email_n, product)}
    IN IF hits = {}
       THEN POut([r EXCEPT !.status = "NotFound"], licenses, 0)
       ELSE LET i == CHOOSE j \in hits : \A k \in hits : j <= k
                lic_key == licenses[i].key
                rec == licenses[i].rec
                exp_dt == parse_dt(rec.expires_at)[1]
                active_mids == rec.active_mids
                seats_total == IF rec.seats_total = 0 THEN 1 ELSE rec.seats_total
                ok == [r EXCEPT !.status = "ok", !.machine_id = machine_id,
                                !.license = lic_key,
                                !.expires_at = isoformat(exp_dt),
                                !.plan = or_default(rec.plan, "paid"),
                                !.license_type = or_default(rec.license_type, "paid")]
            IN IF Contains(active_mids, machine_id)
               THEN POut(ok, licenses, 0)
               ELSE IF seat_free(active_mids, seats_total)
               THEN POut(ok,
                         db_set(licenses, lic_key,
                                [rec EXCEPT !.active_mids =
                                                Append(active_mids, machine_id)]),
                         0)
               ELSE POut([r EXCEPT !.status = "SeatLimitReached",
                                   !.seats_total = seats_total,
                                   !.active_mids = active_mids],
                         licenses, 0)

(* The cooldown test: last_change is the optional datetime of the last rebind *)
next_change_allowed(last_change) == plus_days(last_change[1], COOLDOWN_DAYS)

(* Mutant: the cooldown test off by one at the instant it ends *)
cooldown_active_mut(last_change) ==
    last_change # <<>> /\ utcnow.t <= next_change_allowed(last_change).t

cooldown_active(last_change) ==
    last_change # <<>> /\ utcnow.t < next_change_allowed(last_change).t

(* Mutant: the new key is written and the old key is left in place *)
rebind_mut(db, old_license, new_license, rec) == db_set(db, new_license, rec)

(* Mutant: the machines seated under the old key stay seated under the new one *)
rebind_seats_mut(db, old_license, new_license, rec) ==
    db_set(db_pop(db, old_license), new_license,
           [rec EXCEPT !.active_mids = db_get(db, old_license).active_mids
                                           \o rec.active_mids])

(* "licenses_db.pop(req.license); licenses_db[new_license] = {...}" *)
rebind(db, old_license, new_license, rec) ==
    db_set(db_pop(db, old_license), new_license, rec)

self_recover(license, email, new_machine_id, product) ==
    LET r == [Resp0 EXCEPT !.op = "self_recover"]
    IN IF ~has_key(licenses, license)
       THEN POut([r EXCEPT !.status = "NotFound"], licenses, 0)
       ELSE LET rec == db_get(licenses, license)
                exp_dt == parse_dt(rec.expires_at)
                last_change == parse_dt(rec.last_change_at)
                next_allowed == next_change_allowed(last_change)
                new_license ==
                    make_license_with_exp(new_machine_id, product, exp_dt[1], ctr)
            IN IF rec.product # product
               THEN POut([r EXCEPT !.status = "ProductMismatch"], licenses, 0)
               ELSE IF email_norm(rec.email) # email_norm(email)
               THEN POut([r EXCEPT !.status = "EmailMismatch"], licenses, 0)
               ELSE IF exp_dt = <<>>
               THEN POut([r EXCEPT !.status = "InvalidRecord"], licenses, 0)
               ELSE IF utcnow.t > exp_dt[1].t
               THEN POut([r EXCEPT !.status = "Expired",
                                   !.expires_at = isoformat(exp_dt[1])],
                         licenses, 0)
               ELSE IF cooldown_active(last_change)
               THEN POut([r EXCEPT !.status = "CooldownActive",
                                   !.next_allowed = isoformat(next_allowed)],
                         licenses, 0)
               ELSE POut([r EXCEPT !.status = "recovered",
                                   !.machine_id = new_machine_id,
                                   !.product = product,
                                   !.email = email_norm(email),
                                   !.expires_at = isoformat(exp_dt[1]),
                                   !.license = new_license],
                         rebind(licenses, license, new_license,
                                [rec EXCEPT !.license = new_license,
                                            !.active_mids = <<new_machine_id>>,
                                            !.last_change_at = isoformat(utcnow),
                                            !.expires_at = isoformat(exp_dt[1])]),
                         1)

----------------------------------------------------------------------------
(* Administrative deletions of paid records *)

(* Mutant: every matching key is reported and only the first one is removed *)
delete_keys_mut(r, to_delete) ==
    IF to_delete = <<>>
    THEN POut([r EXCEPT !.status = "NotFound"], licenses, 0)
    ELSE POut([r EXCEPT !.status = "deleted", !.deleted = to_delete],
              db_pop(licenses, to_delete[1]), 0)

delete_keys(r, to_delete) ==
    IF to_delete = <<>>
    THEN POut([r EXCEPT !.status = "NotFound"], licenses, 0)
    ELSE POut([r EXCEPT !.status = "deleted", !.deleted = to_delete],
              SelectSeq(licenses, LAMBDA e : ~Contains(to_delete, e.key)), 0)

admin_delete_license(email, product) ==
    LET email_n == email_norm(email)
        hit(e) == e.rec.product = product /\ email_norm(e.rec.email) = email_n
    IN delete_keys([Resp0 EXCEPT !.op = "admin_delete_license"],
                   keys_of(SelectSeq(licenses, hit)))

admin_delete_by_mid(machine_id, product) ==
    LET mid == strip(machine_id)
        r == [Resp0 EXCEPT !.op = "admin_delete_by_mid"]
        (* paid records carry no "machine_id" field: only active_mids can match *)
        hit(e) == e.rec.product = product /\ Contains(e.rec.active_mids, mid)
    IN IF mid = <<>>
       THEN POut([r EXCEPT !.status = "InvalidArgument"], licenses, 0)
       ELSE delete_keys([r EXCEPT !.machine_id = mid],
                        keys_of(SelectSeq(licenses, hit)))

admin_delete_by_key(license_key) ==
    LET key == strip(license_key)
        r == [Resp0 EXCEPT !.op = "admin_delete_by_key"]
    IN IF key = <<>>
       THEN POut([r EXCEPT !.status = "InvalidArgument"], licenses, 0)
       ELSE IF ~has_key(licenses, key)
       THEN POut([r EXCEPT !.status = "NotFound"], licenses, 0)
       ELSE POut([r EXCEPT !.status = "deleted", !.deleted = <<key>>],
                 db_pop(licenses, key), 0)

----------------------------------------------------------------------------
(* Admin reset of a trial, with the audit log *)

(* Mutant: the log file is rewritten with the new entry alone *)
log_admin_mut(log, action, machine_id, product, reason, removed) ==
    <<[ts |-> isoformat(utcnow), action |-> action,
       machine_id |-> machine_id, product |-> product,
       reason |-> reason, removed |-> removed]>>

log_admin(log, action, machine_id, product, reason, removed) ==
    Append(log, [ts |-> isoformat(utcnow), action |-> action,
                 machine_id |-> machine_id, product |-> product,
                 reason |-> reason, removed |-> removed])

AOut(r, t, log) == [resp |-> r, trials |-> t, admin_log |-> log]

(* "existed = req.machine_id in trials" and the two branches that follow *)
reset_trial(r, machine_id, product, reason) ==
    IF has_trial(machine_id)
    THEN AOut([r EXCEPT !.status = "reset", !.machine_id = machine_id],
              dict_pop(trials, machine_id),
              log_admin(admin_log, "reset_trial", machine_id, product, reason,
                        <<trials[machine_id]>>))
    ELSE AOut([r EXCEPT !.status = "noop", !.machine_id = machine_id], trials,
              log_admin(admin_log, "reset_trial_noop", machine_id, product,
                        reason, <<>>))

(* Mutant: an unconfigured server compares the presented secret with "" *)
admin_reset_trial_mut(machine_id, product, reason, token, x_admin_token) ==
    LET provided == strip(IF token # NONE THEN token ELSE x_admin_token)
        r == [Resp0 EXCEPT !.op = "admin_reset_trial"]
    IN IF provided # admin_token
       THEN AOut([r EXCEPT !.status = "Unauthorized"], trials, admin_log)
       ELSE reset_trial(r, machine_id, product, reason)

admin_reset_trial(machine_id, product, reason, token, x_admin_token) ==
    LET provided == strip(IF token # NONE THEN token ELSE x_admin_token)
        r == [Resp0 EXCEPT !.op = "admin_reset_trial"]
    IN IF admin_token = NONE
       THEN AOut([r EXCEPT !.status = "ConfigurationError"], trials, admin_log)
       ELSE IF provided # admin_token
       THEN AOut([r EXCEPT !.status = "Unauthorized"], trials, admin_log)
       ELSE reset_trial(r, machine_id, product, reason)

----------------------------------------------------------------------------
(* The state machine.  Requests are served one at a time: a handler runs from
   the idle state (no response pending) to the state holding its response, and
   Deliver hands the response to the caller.  Every action takes the sets its
   inputs are drawn from, so that each specification below fixes its own. *)

M3 == <<Ch("m3")>>

(* A machine id and a product that contain the delimiter of the token format *)
MPipe == <<Ch("m"), DELIM, Ch("1")>>
PPipe == <<Ch("p"), DELIM, Ch("x")>>

SeatCounts == {0, 1, 2}
DayCounts == {0, TRIAL_DAYS}
TrialEmails == {NONE, EmailA}
BadSecret == <<Ch("bad")>>
AdminCreds ==
    {<<NONE, NONE>>, <<ADMIN_SECRET, NONE>>, <<NONE, ADMIN_SECRET \o <<SPACE>>>>,
     <<BadSecret, ADMIN_SECRET>>}

(* Well-formed and malformed texts no handler ever minted *)
ForgedValid == fmt_license(M1, P, isoformat([t |-> TRIAL_DAYS, aware |-> TRUE]), 0)
ForgedTokens ==
    {ForgedValid,
     fmt_license(M1, P, isoformat([t |-> 0, aware |-> FALSE]), 0),
     fmt_license(M1, P, <<Ch("soon")>>, 0),
     <<Ch("OTHER"), DELIM>> \o P \o <<DELIM>> \o M1
         \o <<DELIM, Num(TRIAL_DAYS), DELIM, Rnd(0)>>,
     <<MARKER, DELIM>> \o P \o <<DELIM>> \o M1}

trial_tokens == {trials[m].license : m \in DOMAIN trials}

paid_keys == SeqToSet(keys_of(licenses))

known_tokens == paid_keys \cup trial_tokens \cup retired

(* origin: for every key of the registry, the token activate minted for that
   license and the expiry activate gave it (history, not program state) *)
kept(org, db) == [k \in DOMAIN org \cap SeqToSet(keys_of(db)) |-> org[k]]

Idle == resp = Resp0

Init ==
    /\ now = 0
    /\ trials = <<>>
    /\ licenses = <<>>
    /\ admin_log = <<>>
    /\ admin_token = ADMIN_SECRET
    /\ ctr = 1
    /\ resp = Resp0
    /\ retired = {}
    /\ origin = <<>>
    /\ inflight = <<>>

Deliver ==
    /\ ~Idle
    /\ resp' = Resp0
    /\ UNCHANGED <<inflight, now, trials, licenses, admin_log, admin_token, ctr, retired, origin>>

Tick(Times) ==
    /\ Idle
    /\ \E t \in Times : t > now /\ now' = t
    /\ UNCHANGED <<inflight, trials, licenses, admin_log, admin_token, ctr, resp, retired, origin>>

Trial(Mids, Prods) ==
    /\ Idle
    /\ \E m \in Mids, p \in Prods, e \in TrialEmails, mail \in MailOutcomes :
        LET o == trial("trial", m, p, e, mail)
        IN /\ ctr + o.drawn <= MaxTokens + 1
           /\ resp' = o.resp
           /\ trials' = o.trials
           /\ ctr' = ctr + o.drawn
           /\ UNCHANGED <<inflight, now, licenses, admin_log, admin_token, retired, origin>>

RecoverLicense(Mids, Prods) ==
    /\ Idle
    /\ \E m \in Mids, p \in Prods :
        LET o == recover_license(m, p)
        IN /\ ctr + o.drawn <= MaxTokens + 1
           /\ resp' = o.resp
           /\ trials' = o.trials
           /\ ctr' = ctr + o.drawn
           /\ UNCHANGED <<inflight, now, licenses, admin_log, admin_token, retired, origin>>

Validate(Toks, Mids, Prods) ==
    /\ Idle
    /\ \E k \in known_tokens \cup Toks, m \in Mids, p \in Prods :
        /\ resp' = validate(k, m, p)
        /\ UNCHANGED <<inflight, now, trials, licenses, admin_log, admin_token, ctr, retired, origin>>

Activate(Mids, Ems, Prods) ==
    /\ Idle
    /\ \E m \in Mids, e \in Ems, p \in Prods, n \in SeatCounts, d \in DayCounts :
        LET o == activate(m, e, p, n, d)
        IN /\ ctr + o.drawn <= MaxTokens + 1
           /\ resp' = o.resp
           /\ licenses' = o.licenses
           /\ ctr' = ctr + o.drawn
           /\ origin' = IF o.resp.status = "activated"
                        THEN dict_put(origin, o.resp.license,
                                      [root |-> o.resp.license,
                                       exp0 |-> o.resp.expires_at])
                        ELSE origin
           /\ UNCHANGED <<inflight, now, trials, admin_log, admin_token, retired>>

PullLicense(Ems, Mids, Prods) ==
    /\ Idle
    /\ \E e \in Ems, m \in Mids, p \in Prods :
        LET o == pull_license(e, m, p)
        IN /\ resp' = o.resp
           /\ licenses' = o.licenses
           /\ UNCHANGED <<inflight, now, trials, admin_log, admin_token, ctr, retired, origin>>

SelfRecover(Toks, Ems, Mids, Prods) ==
    /\ Idle
    /\ \E k \in known_tokens \cup Toks, e \in Ems, m \in Mids, p \in Prods :
        LET o == self_recover(k, e, m, p)
        IN /\ ctr + o.drawn <= MaxTokens + 1
           /\ resp' = o.resp
           /\ licenses' = o.licenses
           /\ ctr' = ctr + o.drawn
           /\ retired' = IF o.resp.status = "recovered" THEN retired \cup {k}
                         ELSE retired
           /\ origin' = IF o.resp.status = "recovered"
                        THEN kept(dict_put(origin, o.resp.license, origin[k]),
                                  o.licenses)
                        ELSE origin
           /\ UNCHANGED <<inflight, now, trials, admin_log, admin_token>>

AdminDeleteLicense(Ems, Prods) ==
    /\ Idle
    /\ \E e \in Ems, p \in Prods :
        LET o == admin_delete_license(e, p)
        IN /\ resp' = o.resp
           /\ licenses' = o.licenses
           /\ origin' = kept(origin, o.licenses)
           /\ UNCHANGED <<inflight, now, trials, admin_log, admin_token, ctr, retired>>

(* Mutant: deleting a machine's paid records clears its trial record as well *)
AdminDeleteByMid_mut(Mids, Prods) ==
    /\ Idle
    /\ \E m \in Mids, p \in Prods :
        LET o == admin_delete_by_mid(m, p)
        IN /\ resp' = o.resp
           /\ licenses' = o.licenses
           /\ trials' = IF o.resp.deleted # <<>> /\ has_trial(m)
                        THEN dict_pop(trials, m) ELSE trials
           /\ origin' = kept(origin, o.licenses)
           /\ UNCHANGED <<inflight, now, admin_log, admin_token, ctr, retired>>

AdminDeleteByMid(Mids, Prods) ==
    /\ Idle
    /\ \E m \in Mids, p \in Prods :
        LET o == admin_delete_by_mid(m, p)
        IN /\ resp' = o.resp
           /\ licenses' = o.licenses
           /\ origin' = kept(origin, o.licenses)
           /\ UNCHANGED <<inflight, now, trials, admin_log, admin_token, ctr, retired>>

AdminDeleteByKey(Toks) ==
    /\ Idle
    /\ \E k \in known_tokens \cup Toks :
        LET o == admin_delete_by_key(k)
        IN /\ resp' = o.resp
           /\ licenses' = o.licenses
           /\ origin' = kept(origin, o.licenses)
           /\ UNCHANGED <<inflight, now, trials, admin_log, admin_token, ctr, retired>>

AdminResetTrial(Mids, Reasons) ==
    /\ Idle
    /\ \E m \in Mids, reason \in Reasons, cred \in AdminCreds :
        LET o == admin_reset_trial(m, P, reason, cred[1], cred[2])
        IN /\ Len(o.admin_log) <= MaxLog
           /\ resp' = o.resp
           /\ trials' = o.trials
           /\ admin_log' = o.admin_log
           /\ UNCHANGED <<inflight, now, licenses, admin_token, ctr, retired, origin>>

----------------------------------------------------------------------------
(* Concurrent requests.  The handlers are plain functions, which the framework
   runs in worker threads: each loads a whole file, works on its own copy and,
   if it changed the copy, writes the whole file back.  inflight[i] holds the
   request of worker i between its load and its save: the response it has
   computed and the copy it is about to write. *)

Slots == {1, 2}

(* Mutant: a save merges the writer's seats into the seats already on file *)
save_licenses_mut(current, data) ==
    [i \in 1..Len(data) |->
        IF i <= Len(current) /\ current[i].key = data[i].key
        THEN [data[i] EXCEPT !.rec.active_mids =
                  current[i].rec.active_mids
                      \o SelectSeq(data[i].rec.active_mids,
                                   LAMBDA m : ~Contains(current[i].rec.active_mids, m))]
        ELSE data[i]]

(* "json.dump(data, f)": the file becomes the writer's copy *)
save_licenses(current, data) == data

save_trials(current, data) == data

loaded(r, saves, tdata, ldata) ==
    [pc |-> "loaded", resp |-> r, saves |-> saves, tdata |-> tdata, ldata |-> ldata]

LoadPull(Ems, Mids, Prods) ==
    \E i \in Slots \ DOMAIN inflight, e \in Ems, m \in Mids, p \in Prods :
        LET o == pull_license(e, m, p)
        IN /\ inflight' = dict_put(inflight, i,
                                   loaded(o.resp, o.licenses # licenses, <<>>,
                                          o.licenses))
           /\ UNCHANGED <<now, trials, licenses, admin_log, admin_token, ctr, resp,
                          retired, origin>>

LoadActivate(Mids, Ems, Prods) ==
    \E i \in Slots \ DOMAIN inflight, m \in Mids, e \in Ems, p \in Prods,
       n \in SeatCounts, d \in DayCounts :
        LET o == activate(m, e, p, n, d)
        IN /\ ctr + o.drawn <= MaxTokens + 1
           /\ inflight' = dict_put(inflight, i,
                                   loaded(o.resp, o.licenses # licenses, <<>>,
                                          o.licenses))
           /\ ctr' = ctr + o.drawn
           /\ UNCHANGED <<now, trials, licenses, admin_log, admin_token, resp,
                          retired, origin>>

LoadTrial(Mids, Prods) ==
    \E i \in Slots \ DOMAIN inflight, m \in Mids, p \in Prods :
        LET o == trial("trial", m, p, NONE, "off")
        IN /\ ctr + o.drawn <= MaxTokens + 1
           /\ inflight' = dict_put(inflight, i,
                                   loaded(o.resp, o.trials # trials, o.trials, <<>>))
           /\ ctr' = ctr + o.drawn
           /\ UNCHANGED <<now, trials, licenses, admin_log, admin_token, resp,
                          retired, origin>>

Save ==
    \E i \in DOMAIN inflight :
        /\ inflight[i].pc = "loaded"
        /\ inflight' = [inflight EXCEPT ![i].pc = "done"]
        /\ IF inflight[i].saves /\ inflight[i].resp.op = "trial"
           THEN trials' = save_trials(trials, inflight[i].tdata) /\ UNCHANGED licenses
           ELSE IF inflight[i].saves
           THEN licenses' = save_licenses(licenses, inflight[i].ldata)
                    /\ UNCHANGED trials
           ELSE UNCHANGED <<trials, licenses>>
        /\ UNCHANGED <<now, admin_log, admin_token, ctr, resp, retired, origin>>

(* The responses have been sent and the workers are free again *)
Respond ==
    /\ inflight # <<>>
    /\ \A i \in DOMAIN inflight : inflight[i].pc = "done"
    /\ inflight' = <<>>
    /\ UNCHANGED <<now, trials, licenses, admin_log, admin_token, ctr, resp, retired,
                   origin>>

NextConc ==
    \/ LoadActivate({M1}, {EmailAUpper}, {P})
    \/ LoadPull({EmailA}, {M2, M3}, {P})
    \/ LoadTrial({M1, M2}, {P})
    \/ Save
    \/ Respond

SpecConc == Init /\ [][NextConc]_vars

----------------------------------------------------------------------------
(* SpecTrial: the trial/owner ledger with validate and the admin reset *)

TrialTimes == {0, TRIAL_DAYS, TRIAL_DAYS + 1, OWNER_DAYS + 1}
TrialMids == {M1, O1}

NextTrial ==
    \/ Deliver
    \/ Tick(TrialTimes)
    \/ Trial(TrialMids, Products)
    \/ RecoverLicense(TrialMids, Products)
    \/ Validate({ForgedValid}, TrialMids, Products)
    \/ AdminResetTrial({M1}, {<<Ch("support")>>})

SpecTrial == Init /\ [][NextTrial]_vars

----------------------------------------------------------------------------
(* SpecPaid: the paid registry with validate and the admin deletions *)

PaidTimes == {0, COOLDOWN_DAYS, TRIAL_DAYS, TRIAL_DAYS + 1}
PaidMids == {M1, M2, M3}

NextPaid ==
    \/ Deliver
    \/ Tick(PaidTimes)
    \/ Activate({M1}, {EmailAUpper, EmailBad}, {P})
    \/ PullLicense({EmailA, EmailB}, PaidMids, Products)
    \/ SelfRecover({ForgedValid}, {EmailA, EmailB}, {M1, M2}, Products)
    \/ Validate({ForgedValid}, PaidMids, Products)
    \/ AdminDeleteLicense({EmailA, EmailB}, Products)
    \/ AdminDeleteByMid({M1, M2, <<SPACE>>}, Products)
    \/ AdminDeleteByKey({ForgedValid, <<SPACE>>})

SpecPaid == Init /\ [][NextPaid]_vars

----------------------------------------------------------------------------
(* SpecAdmin: the admin reset and its audit log over the trial ledger, on a
   server started with or without ENVIFORGE_ADMIN_TOKEN in its environment *)

ADMIN_TOKEN_ENV == {NONE, <<SPACE>>, <<SPACE>> \o ADMIN_SECRET}
AdminTimes == {0, TRIAL_DAYS + 1}
AdminMids == {M1, M2}
Reasons == {NONE, <<Ch("support")>>}

InitAdmin ==
    /\ now = 0
    /\ trials = <<>>
    /\ licenses = <<>>
    /\ admin_log = <<>>
    /\ admin_token \in {strip(e) : e \in ADMIN_TOKEN_ENV}
    /\ ctr = 1
    /\ resp = Resp0
    /\ retired = {}
    /\ origin = <<>>
    /\ inflight = <<>>

NextAdmin ==
    \/ Deliver
    \/ Tick(AdminTimes)
    \/ Trial(AdminMids, {P})
    \/ RecoverLicense(AdminMids, {P})
    \/ AdminResetTrial(AdminMids, Reasons)

SpecAdmin == InitAdmin /\ [][NextAdmin]_vars

----------------------------------------------------------------------------
(* SpecCodec: the handlers that mint and parse tokens, on machine ids and
   products with and without the delimiter *)

CodecTimes == {0, TRIAL_DAYS}
CodecMids == {M1, MPipe}
CodecProducts == {P, PPipe}

NextCodec ==
    \/ Deliver
    \/ Tick(CodecTimes)
    \/ Trial(CodecMids, CodecProducts)
    \/ Activate(CodecMids, {EmailAUpper}, CodecProducts)
    \/ SelfRecover({}, {EmailA}, CodecMids, CodecProducts)
    \/ Validate({ForgedValid}, CodecMids, CodecProducts)

SpecCodec == Init /\ [][NextCodec]_vars

----------------------------------------------------------------------------
(* SpecExpiry: both stores side by side, with the clock at, just before and
   just after the expiry of trial, paid and owner grants *)

ExpiryTimes == {0, TRIAL_DAYS, TRIAL_DAYS + 1, OWNER_DAYS, OWNER_DAYS + 1}
ExpiryMids == {M1, O1}

NextExpiry ==
    \/ Deliver
    \/ Tick(ExpiryTimes)
    \/ Trial(ExpiryMids, {P})
    \/ RecoverLicense(ExpiryMids, {P})
    \/ Activate({M1}, {EmailAUpper}, {P})
    \/ PullLicense({EmailA}, {M1, M2}, {P})
    \/ SelfRecover({}, {EmailA}, {M2}, {P})
    \/ Validate({}, {M1, M2, O1}, {P})

SpecExpiry == Init /\ [][NextExpiry]_vars

----------------------------------------------------------------------------
(* SpecStores: every handler that writes a store, on one machine that gets a
   trial record and a paid seat *)

StoresTimes == {0, TRIAL_DAYS + 1}

NextStores ==
    \/ Deliver
    \/ Tick(StoresTimes)
    \/ Trial({M1}, {P})
    \/ RecoverLicense({M1, O1}, {P})
    \/ AdminResetTrial({M1}, {NONE})
    \/ Activate({M1}, {EmailAUpper}, {P})
    \/ PullLicense({EmailA}, {M1, M2}, {P})
    \/ SelfRecover({}, {EmailA}, {M2}, {P})
    \/ AdminDeleteLicense({EmailA}, {P})
    \/ AdminDeleteByMid({M1}, {P})
    \/ AdminDeleteByKey({})

SpecStores == InitAdmin /\ [][NextStores]_vars

----------------------------------------------------------------------------
(* Claims *)

(* The record pull_license decides on: the first one, in registry order, that
   its scan does not skip; 0 when there is none *)
first_candidate(email, product) ==
    LET hits == {i \in 1..Len(licenses) :
                     pull_candidate(licenses[i].rec, email_norm(email), product)}
    IN IF hits = {} THEN 0 ELSE CHOOSE j \in hits : \A k \in hits : j <= k

(* C1: under sequential calls every paid record holds at most seats_total
   machines, and a pull by an unseated machine that lands on a full, non-expired
   record fails with SeatLimitReached and leaves the registry unchanged. *)
C1_SeatCap ==
    /\ \A i \in 1..Len(licenses) :
           seats_used(licenses[i].rec) <= licenses[i].rec.seats_total
    /\ \A e \in Emails, m \in PaidMids, p \in Products :
           LET i == first_candidate(e, p)
               o == pull_license(e, m, p)
           IN (/\ i # 0
               /\ ~Contains(licenses[i].rec.active_mids, m)
               /\ seats_used(licenses[i].rec) >= licenses[i].rec.seats_total)
              => /\ o.resp.status = "SeatLimitReached"
                 /\ o.licenses = licenses

C1_Witness ==
    /\ resp.op = "pull_license"
    /\ resp.status = "SeatLimitReached"
    /\ resp.seats_total = 2
    /\ Len(resp.active_mids) = 2
    /\ \E i \in 1..Len(licenses) : licenses[i].rec.active_mids = resp.active_mids

(* C2: once self_recover has replaced a token, validate never again accepts the
   old token, for any machine or product. *)
C2_OldTokenInvalid ==
    \A k \in retired, m \in PaidMids, p \in Products :
        validate(k, m, p).status # "valid"

(* C3: validate accepts a token only when a stored record backs it: a
   non-expired paid record of that product keyed by the token that seats the
   machine, or the trial record of the machine holding exactly this token. *)
backed_by_paid(k, m, p) ==
    /\ has_key(licenses, k)
    /\ db_get(licenses, k).product = p
    /\ Contains(db_get(licenses, k).active_mids, m)
    /\ parse_dt(db_get(licenses, k).expires_at) # <<>>
    /\ now <= parse_dt(db_get(licenses, k).expires_at)[1].t

backed_by_trial(k, m, p) ==
    /\ has_trial(m)
    /\ trials[m].license = k
    /\ trials[m].product = p
    /\ parse_dt(trials[m].expires_at) # <<>>
    /\ now <= parse_dt(trials[m].expires_at)[1].t

C3_ValidOnlyIfStored ==
    \A k \in known_tokens \cup ForgedTokens, m \in PaidMids, p \in Products :
        validate(k, m, p).status = "valid"
            => backed_by_paid(k, m, p) \/ backed_by_trial(k, m, p)

(* The stored trial of machine m, read as the handlers read it *)
trial_exp(m) == parse_dt(trials[m].expires_at)

trial_unexpired(m) == has_trial(m) /\ trial_exp(m) # <<>> /\ now <= trial_exp(m)[1].t

trial_expired(m) == has_trial(m) /\ trial_exp(m) # <<>> /\ now > trial_exp(m)[1].t

(* C4: for a non-owner machine with an unexpired trial record, trial() returns
   the stored token and expiry as they are, draws no new token and leaves the
   record as it was, whatever product, email or notifier outcome comes with it. *)
C4_TrialIdempotent ==
    \A m \in TrialMids :
        (~is_owner(m) /\ trial_unexpired(m))
        => \A p \in Products, e \in TrialEmails, mail \in MailOutcomes :
               LET o == trial("trial", m, p, e, mail)
               IN /\ o.resp.status = "ok"
                  /\ o.resp.license = trials[m].license
                  /\ o.resp.expires_at = trials[m].expires_at
                  /\ o.trials = trials
                  /\ o.drawn = 0

C4_Witness ==
    /\ resp.op = "trial"
    /\ resp.status = "ok"
    /\ ~is_owner(resp.machine_id)
    /\ trial_unexpired(resp.machine_id)
    /\ resp.license = trials[resp.machine_id].license
    /\ now > fromisoformat(trials[resp.machine_id].issued_at).t

(* C5: while the trial record of a non-owner machine is expired, every trial()
   for it, with any product or email, fails with TrialAlreadyUsed and leaves the
   ledger unchanged; and the record stays as it is, hence expired, through every
   step that is not a successful admin reset of that machine. *)
C5_ExpiredTrialStays ==
    [][\A m \in TrialMids :
           (~is_owner(m) /\ trial_expired(m))
           => /\ \A p \in Products, e \in TrialEmails, mail \in MailOutcomes :
                     LET o == trial("trial", m, p, e, mail)
                     IN /\ o.resp.status = "TrialAlreadyUsed"
                        /\ o.trials = trials
                        /\ o.drawn = 0
              /\ \/ resp'.op = "admin_reset_trial" /\ resp'.status = "reset"
                        /\ resp'.machine_id = m
                 \/ m \in DOMAIN trials' /\ trials'[m] = trials[m] /\ now' >= now
      ]_vars

C5_Witness ==
    /\ resp.op = "trial"
    /\ resp.status = "TrialAlreadyUsed"
    /\ \E m \in TrialMids :
           /\ ~is_owner(m)
           /\ trial_expired(m)
           /\ resp.issued_at = trials[m].issued_at
           /\ resp.expires_at = trials[m].expires_at

(* C9: the ledger is keyed by machine id, so it holds one record per machine;
   a record leaves the ledger only by a successful admin reset of its machine;
   and the token and expiry of a non-owner machine's record never change while
   the record is there. *)
C9_TrialRecordFixed ==
    [][\A m \in DOMAIN trials :
           /\ m \notin DOMAIN trials'
                  => /\ resp'.op = "admin_reset_trial"
                     /\ resp'.status = "reset"
                     /\ resp'.machine_id = m
           /\ (m \in DOMAIN trials' /\ ~is_owner(m))
                  => /\ trials'[m].license = trials[m].license
                     /\ trials'[m].expires_at = trials[m].expires_at
                     /\ trials'[m].issued_at = trials[m].issued_at
      ]_vars

C9_Witness ==
    /\ resp.op = "admin_reset_trial"
    /\ resp.status = "reset"
    /\ ~is_owner(resp.machine_id)
    /\ resp.machine_id \notin DOMAIN trials
    /\ Len(admin_log) = 1
    /\ admin_log[1].removed # <<>>
    /\ now > fromisoformat(admin_log[1].removed[1].expires_at).t

(* C10 as stated: recover_license never changes the ledger, for any machine. *)
C10_RecoverReadOnly ==
    \A m \in TrialMids, p \in Products : recover_license(m, p).trials = trials

(* C10 as amended: for a machine outside the owner allow-set recover_license
   leaves the ledger unchanged and draws no token, answering NotFound without a
   record, Expired past the expiry, and the stored token otherwise; for an owner
   machine it is trial()'s owner branch, which returns the stored token while it
   is unexpired and otherwise mints a new owner token and, unless the token
   cannot be parsed back, stores it. *)
C10_RecoverReadOnlyNonOwner ==
    \A m \in TrialMids, p \in Products \cup {PPipe} :
        LET o == recover_license(m, p)
        IN IF is_owner(m)
           THEN /\ trial_unexpired(m)
                       => o.resp.status = "ok" /\ o.trials = trials /\ o.drawn = 0
                /\ ~trial_unexpired(m)
                       => /\ o.drawn = 1
                          /\ \/ /\ o.resp.status = "ok"
                                /\ p # PPipe
                                /\ o.trials # trials
                                /\ o.trials[m].license = o.resp.license
                                /\ o.trials[m].plan = "owner"
                             \/ /\ o.resp.status = "InternalError"
                                /\ p = PPipe
                                /\ o.trials = trials
           ELSE /\ o.trials = trials
                /\ o.drawn = 0
                /\ ~has_trial(m) => o.resp.status = "NotFound"
                /\ trial_expired(m) => o.resp.status = "Expired"
                /\ trial_unexpired(m)
                       => /\ o.resp.status = "ok"
                          /\ o.resp.license = trials[m].license

C10_Witness ==
    /\ resp.op = "recover_license"
    /\ resp.status = "ok"
    /\ ~is_owner(resp.machine_id)
    /\ resp.license = trials[resp.machine_id].license

RebindEmails == {EmailA, EmailB}

(* C6: the expiry of a paid license is the one activate gave it: in every
   record, in the token that keys it, in every token and expiry a paid handler
   returns, and in whatever self_recover writes and returns for the next
   request taken. *)
C6_ExpiryFixed ==
    /\ \A i \in 1..Len(licenses) :
           LET e == licenses[i]
           IN /\ e.rec.expires_at = origin[e.key].exp0
              /\ parse_license_ok(e.key)
              /\ isoformat(parse_license(e.key).exp) = origin[e.key].exp0
    /\ (resp.op \in {"activate", "pull_license", "self_recover"}
            /\ resp.license # NONE)
           => /\ has_key(licenses, resp.license)
              /\ resp.expires_at = origin[resp.license].exp0
    /\ Idle => \A k \in paid_keys, e \in RebindEmails, m \in PaidMids,
                  p \in Products :
           LET o == self_recover(k, e, m, p)
           IN o.resp.status = "recovered"
              => /\ o.resp.expires_at = origin[k].exp0
                 /\ db_get(o.licenses, o.resp.license).expires_at = origin[k].exp0
                 /\ isoformat(parse_license(o.resp.license).exp) = origin[k].exp0

C6_Witness ==
    /\ resp.op = "self_recover"
    /\ resp.status = "recovered"
    /\ now > 0
    /\ has_key(licenses, resp.license)
    /\ origin[resp.license].root # resp.license
    /\ resp.expires_at = origin[resp.license].exp0
    /\ fromisoformat(resp.expires_at).t = TRIAL_DAYS

(* C7: whenever a request is taken, a self_recover that passes the checks made before the cooldown test
   (product, email, expiry) less than COOLDOWN_DAYS after the record's last
   rebind fails with CooldownActive, reports that rebind's instant plus
   COOLDOWN_DAYS and leaves the registry unchanged; a record never rebound, and
   one whose cooldown has run out, is never refused with CooldownActive; and
   last_change_at is the instant of the rebind that wrote the record. *)
C7_Cooldown ==
    /\ Idle => \A k \in paid_keys, e \in RebindEmails, m \in PaidMids,
                  p \in Products :
           LET rec == db_get(licenses, k)
               o == self_recover(k, e, m, p)
               last == parse_dt(rec.last_change_at)
               exp == parse_dt(rec.expires_at)
               eligible == /\ rec.product = p
                           /\ email_norm(rec.email) = email_norm(e)
                           /\ exp # <<>>
                           /\ now <= exp[1].t
           IN /\ rec.last_change_at = NONE => o.resp.status # "CooldownActive"
              /\ (last # <<>> /\ now >= last[1].t + COOLDOWN_DAYS)
                     => o.resp.status # "CooldownActive"
              /\ (eligible /\ last # <<>> /\ now < last[1].t + COOLDOWN_DAYS)
                     => /\ o.resp.status = "CooldownActive"
                        /\ o.resp.next_allowed
                               = isoformat([t |-> last[1].t + COOLDOWN_DAYS,
                                            aware |-> TRUE])
                        /\ o.licenses = licenses
                        /\ o.drawn = 0
    /\ (resp.op = "self_recover" /\ resp.status = "recovered")
           => db_get(licenses, resp.license).last_change_at = isoformat(utcnow)

C7_Witness ==
    /\ resp.op = "self_recover"
    /\ resp.status = "CooldownActive"
    /\ now = COOLDOWN_DAYS
    /\ \E i \in 1..Len(licenses) :
           /\ licenses[i].rec.last_change_at = isoformat(utcnow)
           /\ resp.next_allowed
                  = isoformat(plus_days(utcnow, COOLDOWN_DAYS))

(* C8: no two keys of the registry belong to the same logical license, a token
   that self_recover replaced is not a key, and self_recover, whenever a
   request is taken, either swaps the old key for the new one in the one
   registry it saves, leaving every other entry as it was, or saves nothing. *)
C8_OneLiveToken ==
    /\ \A i, j \in 1..Len(licenses) :
           i # j => origin[licenses[i].key].root # origin[licenses[j].key].root
    /\ \A k \in retired : ~has_key(licenses, k)
    /\ Idle => \A k \in paid_keys \cup {ForgedValid}, e \in RebindEmails,
                  m \in PaidMids, p \in Products :
           LET o == self_recover(k, e, m, p)
           IN IF o.resp.status = "recovered"
              THEN /\ ~has_key(o.licenses, k)
                   /\ has_key(o.licenses, o.resp.license)
                   /\ Len(o.licenses) = Len(licenses)
                   /\ \A i \in 1..Len(licenses) :
                          licenses[i].key # k
                              => \E j \in 1..Len(o.licenses) :
                                     o.licenses[j] = licenses[i]
              ELSE o.licenses = licenses /\ o.drawn = 0

C8_Witness ==
    /\ resp.op = "self_recover"
    /\ resp.status = "recovered"
    /\ Len(licenses) = 1
    /\ licenses[1].key = resp.license
    /\ origin[resp.license].root \in retired
    /\ retired # {}
    /\ \A k \in retired : ~has_key(licenses, k)

(* C11: the deletion handlers take no credential (their request bodies are
   email/product, machine_id/product and license_key), so every call to them is
   a call that presents no admin secret; the claim is that such a call is
   refused as Unauthorized or ConfigurationError and removes no paid record. *)
C11_DeletionsGated ==
    /\ \A k \in paid_keys :
           LET o == admin_delete_by_key(k)
           IN /\ o.resp.status \in {"Unauthorized", "ConfigurationError"}
              /\ o.licenses = licenses
    /\ \A e \in RebindEmails, p \in Products :
           LET o == admin_delete_license(e, p)
           IN o.licenses = licenses
    /\ \A m \in PaidMids, p \in Products :
           LET o == admin_delete_by_mid(m, p)
           IN o.licenses = licenses

(* The secret a reset request presents: the query parameter, else the header *)
presented(cred) == IF cred[1] # NONE THEN cred[1] ELSE cred[2]

(* C12 as stated: without a configured secret every reset is refused with
   ConfigurationError, and with one every reset whose presented secret is not
   equal to it is refused with Unauthorized; the ledger and the audit log are
   unchanged in both cases. *)
C12_ResetGated ==
    \A m \in AdminMids, reason \in Reasons, cred \in AdminCreds :
        LET o == admin_reset_trial(m, P, reason, cred[1], cred[2])
        IN /\ admin_token = NONE
                 => /\ o.resp.status = "ConfigurationError"
                    /\ o.trials = trials /\ o.admin_log = admin_log
           /\ (admin_token # NONE /\ presented(cred) # admin_token)
                 => /\ o.resp.status = "Unauthorized"
                    /\ o.trials = trials /\ o.admin_log = admin_log

(* C12 as amended: the presented secret is compared after its surrounding
   whitespace is trimmed. *)
C12_ResetGatedTrimmed ==
    \A m \in AdminMids, reason \in Reasons, cred \in AdminCreds :
        LET o == admin_reset_trial(m, P, reason, cred[1], cred[2])
        IN /\ admin_token = NONE
                 => /\ o.resp.status = "ConfigurationError"
                    /\ o.trials = trials /\ o.admin_log = admin_log
           /\ (admin_token # NONE /\ strip(presented(cred)) # admin_token)
                 => /\ o.resp.status = "Unauthorized"
                    /\ o.trials = trials /\ o.admin_log = admin_log
           /\ (admin_token # NONE /\ strip(presented(cred)) = admin_token)
                 => o.resp.status \in {"reset", "noop"}

C12_Witness ==
    /\ resp.op = "admin_reset_trial"
    /\ resp.status = "ConfigurationError"
    /\ admin_token = NONE
    /\ has_trial(M1)
    /\ admin_log = <<>>

authorized(cred) == admin_token # NONE /\ strip(presented(cred)) = admin_token

(* C13: an authorized reset of machine m removes m's trial record if there is
   one and leaves every other record as it was, reports a no-op and leaves the
   ledger unchanged if there is none, and in both cases appends one entry
   (reset_trial or reset_trial_noop, with the machine, the reason and the
   instant) to the audit log; and no step of any handler removes or alters an
   entry of the audit log. *)
C13_ResetAndAudit ==
    [][/\ \A m \in AdminMids, reason \in Reasons, cred \in AdminCreds :
              authorized(cred)
              => LET o == admin_reset_trial(m, P, reason, cred[1], cred[2])
                     e == o.admin_log[Len(o.admin_log)]
                 IN /\ Len(o.admin_log) = Len(admin_log) + 1
                    /\ SubSeq(o.admin_log, 1, Len(admin_log)) = admin_log
                    /\ e.machine_id = m
                    /\ e.reason = reason
                    /\ e.ts = isoformat(utcnow)
                    /\ IF has_trial(m)
                       THEN /\ o.resp.status = "reset"
                            /\ e.action = "reset_trial"
                            /\ e.removed = <<trials[m]>>
                            /\ DOMAIN o.trials = DOMAIN trials \ {m}
                            /\ \A x \in DOMAIN o.trials : o.trials[x] = trials[x]
                       ELSE /\ o.resp.status = "noop"
                            /\ e.action = "reset_trial_noop"
                            /\ o.trials = trials
       /\ Len(admin_log') >= Len(admin_log)
       /\ SubSeq(admin_log', 1, Len(admin_log)) = admin_log
      ]_vars

C13_Witness ==
    /\ resp.op = "admin_reset_trial"
    /\ resp.status = "reset"
    /\ resp.machine_id = M1
    /\ ~has_trial(M1)
    /\ has_trial(M2)
    /\ Len(admin_log) = 1
    /\ admin_log[1].action = "reset_trial"
    /\ admin_log[1].machine_id = M1

(* C14: activate with seats_total < 1, days < 1 or an email without "@" fails
   with InvalidArgument and leaves the registry unchanged; every other activate
   appends one record under the token it minted, with active_mids =
   [machine_id], last_change_at null, the normalized email and the given seat
   count, and leaves the records already there as they were. *)
C14_ActivateAddsOne ==
    \A m \in {M1, MPipe}, e \in {EmailAUpper, EmailBad}, p \in {P},
       n \in SeatCounts, d \in DayCounts :
        LET o == activate(m, e, p, n, d)
        IN IF n < 1 \/ d < 1 \/ ~Contains(e, Ch("@"))
           THEN o.resp.status = "InvalidArgument" /\ o.licenses = licenses
           ELSE /\ o.resp.status = "activated"
                /\ Len(o.licenses) = Len(licenses) + 1
                /\ SubSeq(o.licenses, 1, Len(licenses)) = licenses
                /\ ~has_key(licenses, o.resp.license)
                /\ o.licenses[Len(o.licenses)].key = o.resp.license
                /\ LET rec == o.licenses[Len(o.licenses)].rec
                   IN /\ rec.active_mids = <<m>>
                      /\ rec.last_change_at = NONE
                      /\ rec.email = lower(strip(e))
                      /\ rec.seats_total = n

PullEmails == {EmailA, EmailAUpper, EmailB}

(* Record rec is of this email (trimmed, case-insensitive) and product and is
   not past its expiry *)
live_match(rec, email, product) ==
    /\ rec.product = product
    /\ lower(strip(rec.email)) = lower(strip(email))
    /\ fromisoformat_ok(rec.expires_at)
    /\ now <= fromisoformat(rec.expires_at).t

(* C15: whenever a request is taken (no response pending), a pull by a machine already seated on the first live record of its
   email and product returns that record's key and expiry and leaves the
   registry unchanged; a pull fails with NotFound exactly when no record is a
   live match, whatever expired records there are, and then leaves the registry
   unchanged. *)
C15_PullIdempotent ==
    Idle => \A e \in PullEmails, m \in PaidMids, p \in Products :
        LET o == pull_license(e, m, p)
            live == SelectSeq(licenses, LAMBDA x : live_match(x.rec, e, p))
        IN /\ live = <<>> => o.resp.status = "NotFound" /\ o.licenses = licenses
           /\ live # <<>> => o.resp.status # "NotFound"
           /\ (live # <<>> /\ Contains(live[1].rec.active_mids, m))
                  => /\ o.resp.status = "ok"
                     /\ o.resp.license = live[1].key
                     /\ o.resp.expires_at = live[1].rec.expires_at
                     /\ o.licenses = licenses

C15_Witness ==
    /\ resp.op = "pull_license"
    /\ resp.status = "ok"
    /\ resp.machine_id = M1
    /\ has_key(licenses, resp.license)
    /\ db_get(licenses, resp.license).seats_total = 2
    /\ db_get(licenses, resp.license).active_mids = <<M1>>
    /\ \E i \in 1..Len(licenses) :
           /\ licenses[i].key # resp.license
           /\ now > fromisoformat(licenses[i].rec.expires_at).t

(* The outcome the order of checks NotFound, ProductMismatch, EmailMismatch,
   Expired, CooldownActive prescribes for a request *)
first_failure(license, email, product) ==
    IF ~has_key(licenses, license) THEN "NotFound"
    ELSE LET rec == db_get(licenses, license)
         IN IF rec.product # product THEN "ProductMismatch"
            ELSE IF lower(strip(rec.email)) # lower(strip(email))
            THEN "EmailMismatch"
            ELSE IF now > fromisoformat(rec.expires_at).t THEN "Expired"
            ELSE IF /\ rec.last_change_at # NONE
                    /\ now < fromisoformat(rec.last_change_at).t + COOLDOWN_DAYS
            THEN "CooldownActive"
            ELSE "recovered"

(* C16: whenever a request is taken, self_recover reports the first check that fails in the order NotFound,
   ProductMismatch, EmailMismatch (emails trimmed and lower-cased), Expired,
   CooldownActive, succeeds when none fails, and on every failure returns the
   registry as it was and draws no token. *)
C16_CheckOrder ==
    Idle => \A k \in paid_keys \cup retired \cup ForgedTokens, e \in PullEmails,
       m \in {M1, M2}, p \in Products :
        LET o == self_recover(k, e, m, p)
        IN /\ o.resp.status = first_failure(k, e, p)
           /\ o.resp.status # "recovered" => o.licenses = licenses /\ o.drawn = 0

(* An EmailMismatch answered on a record that is expired as well *)
C16_Witness ==
    /\ resp.op = "self_recover"
    /\ resp.status = "EmailMismatch"
    /\ Len(licenses) = 1
    /\ licenses[1].rec.product = P
    /\ now > fromisoformat(licenses[1].rec.expires_at).t
    /\ retired # {}

(* The reason the order of checks prescribes for a validate request *)
validate_reason(license, machine_id, product) ==
    IF has_key(licenses, license)
    THEN LET rec == db_get(licenses, license)
         IN IF rec.product # product THEN "ProductMismatch"
            ELSE IF now > fromisoformat(rec.expires_at).t THEN "Expired"
            ELSE IF machine_id \notin SeqToSet(rec.active_mids) THEN "SeatNotBound"
            ELSE "valid"
    ELSE LET f == split(strip(license), DELIM)
         IN IF Len(f) # 5 \/ f[1] # <<MARKER>> \/ ~fromisoformat_ok(f[4])
            THEN "MalformedToken"
            ELSE IF f[2] # product THEN "ProductMismatch"
            ELSE IF f[3] # machine_id THEN "MachineMismatch"
            ELSE IF now > fromisoformat(f[4]).t THEN "Expired"
            ELSE "valid"

(* C17: whenever a request is taken, validate answers a key of the paid registry with the first failing
   check of ProductMismatch, Expired, SeatNotBound, and never by the text of the
   token; it answers any other text with the first failing check of
   MalformedToken, ProductMismatch, MachineMismatch, Expired; and a validate
   step leaves the trial ledger and the paid registry as they were. *)
C17_ValidateReasons ==
    /\ [](Idle => \A k \in known_tokens \cup ForgedTokens, m \in PaidMids,
                      p \in Products :
                  validate(k, m, p).status = validate_reason(k, m, p))
    /\ [][resp'.op = "validate" => trials' = trials /\ licenses' = licenses]_vars

C17_Witness ==
    /\ resp.op = "validate"
    /\ resp.status = "SeatNotBound"
    /\ Len(licenses) = 1
    /\ licenses[1].rec.active_mids = <<M2>>
    /\ now <= fromisoformat(licenses[1].rec.expires_at).t

(* C18: for a machine of the owner allow-set trial() always succeeds: while the
   stored record is unexpired it returns the stored token and leaves the ledger
   unchanged, and otherwise it mints a token of OWNER_DAYS and stores it with
   plan owner. *)
C18_OwnerNeverFails ==
    \A m \in TrialMids, p \in Products \cup {PPipe}, e \in TrialEmails,
       mail \in MailOutcomes :
        is_owner(m)
        => LET o == trial("trial", m, p, e, mail)
           IN /\ o.resp.status = "ok"
              /\ trial_unexpired(m)
                     => /\ o.resp.license = trials[m].license
                        /\ o.trials = trials
                        /\ o.drawn = 0
              /\ ~trial_unexpired(m)
                     => /\ o.drawn = 1
                        /\ o.trials[m].license = o.resp.license
                        /\ o.trials[m].plan = "owner"
                        /\ o.trials[m].expires_at
                               = isoformat(plus_days(utcnow, OWNER_DAYS))

DeleteMids == {M1, M2, <<SPACE>> \o M2, <<SPACE>>}
DeleteKeys == paid_keys \cup {<<SPACE>> \o k : k \in paid_keys}
                  \cup {ForgedValid, <<SPACE>>}

(* What a deletion with outcome o must have done when hit(e) says which
   entries match: nothing matching gives status none and the registry as it
   was; otherwise the matching keys are reported, the matching entries are gone
   and the others are left as they were, in their order *)
deleted_exactly(o, hit(_), none) ==
    IF \A i \in 1..Len(licenses) : ~hit(licenses[i])
    THEN o.resp.status = none /\ o.licenses = licenses
    ELSE /\ o.resp.status = "deleted"
         /\ o.resp.deleted = keys_of(SelectSeq(licenses, hit))
         /\ o.licenses = SelectSeq(licenses, LAMBDA e : ~hit(e))

(* The three deletions against their criteria, in the states where a request
   is taken; blank is the status claimed for
   a machine id or key that is empty once trimmed *)
deletions_exact(blank) ==
    Idle =>
    /\ \A e \in PullEmails, p \in Products :
           deleted_exactly(admin_delete_license(e, p),
                           LAMBDA x : /\ x.rec.product = p
                                      /\ lower(strip(x.rec.email)) = lower(strip(e)),
                           "NotFound")
    /\ \A m \in DeleteMids, p \in Products :
           deleted_exactly(admin_delete_by_mid(m, p),
                           LAMBDA x : /\ x.rec.product = p
                                      /\ strip(m) \in SeqToSet(x.rec.active_mids),
                           IF strip(m) = <<>> THEN blank ELSE "NotFound")
    /\ \A k \in DeleteKeys :
           deleted_exactly(admin_delete_by_key(k),
                           LAMBDA x : x.key = strip(k),
                           IF strip(k) = <<>> THEN blank ELSE "NotFound")

(* Every key of the registry carries a token number drawn before now, and a
   key that enters the registry carries the number drawn in that step: so a
   key that has left the registry never enters it again *)
keys_fresh ==
    /\ [](\A k \in paid_keys : parse_license(k).token[1].n < ctr)
    /\ [][\A k \in SeqToSet(keys_of(licenses')) \ paid_keys :
              parse_license(k).token[1].n = ctr /\ ctr' = ctr + 1]_vars

(* C19 as stated: each deletion removes exactly the matching records, reports
   their keys, leaves the others unchanged, and fails with NotFound, leaving the
   registry unchanged, when nothing matches; a removed key never returns. *)
C19_DeleteExactly == [](deletions_exact("NotFound")) /\ keys_fresh

(* C19 as amended: the same, except that a machine id or key that is empty once
   trimmed is refused with InvalidArgument, not NotFound. *)
C19_DeleteExactlyOrInvalid == [](deletions_exact("InvalidArgument")) /\ keys_fresh

C19_Witness ==
    /\ resp.op = "admin_delete_by_mid"
    /\ resp.status = "deleted"
    /\ resp.machine_id = M2
    /\ Len(resp.deleted) = 1
    /\ Len(licenses) = 1
    /\ ~has_key(licenses, resp.deleted[1])
    /\ licenses[1].rec.active_mids = <<M1>>

CodecExpiries == {[t |-> TRIAL_DAYS, aware |-> TRUE], [t |-> TRIAL_DAYS, aware |-> FALSE]}

(* Token text t parses back to these four fields *)
decodes_to(t, machine_id, product, exp, k) ==
    /\ parse_license_ok(t)
    /\ parse_license(t).product = product
    /\ parse_license(t).machine_id = machine_id
    /\ parse_license(t).exp = exp
    /\ parse_license(t).token = <<Rnd(k)>>

(* C20: whatever machine id, product and number of days make_license is given,
   and whatever expiry make_license_with_exp is given, parse_license accepts
   the token and returns the same product, machine id, expiry and random
   suffix, also when the machine id or the product contains "|". *)
C20_RoundTrip ==
    \A m \in CodecMids, p \in CodecProducts :
        /\ \A d \in DayCounts :
               decodes_to(make_license(m, p, d, ctr), m, p, plus_days(utcnow, d), ctr)
        /\ \A exp \in CodecExpiries :
               decodes_to(make_license_with_exp(m, p, exp, ctr), m, p, as_utc(exp), ctr)

(* The stored expiry of a record has passed *)
past(rec) == now > fromisoformat(rec.expires_at).t

(* C21: whenever a request is taken, every handler treats a record as expired
   exactly when now is after its stored expiry, and as valid at the expiry
   instant itself: trial() (non-owner: TrialAlreadyUsed; owner: a new token),
   recover_license (Expired), validate of the record's token (Expired on both
   branches), pull_license (the record is skipped) and self_recover (Expired). *)
C21_StrictExpiry ==
    Idle =>
    /\ \A m \in DOMAIN trials :
           LET rec == trials[m]
               t == trial("trial", m, rec.product, NONE, "off")
               r == recover_license(m, rec.product)
               v == validate(rec.license, m, rec.product)
           IN /\ v.status = IF past(rec) THEN "Expired" ELSE "valid"
              /\ IF is_owner(m)
                 THEN /\ t.drawn = IF past(rec) THEN 1 ELSE 0
                      /\ r.drawn = IF past(rec) THEN 1 ELSE 0
                      /\ ~past(rec) => /\ t.resp.license = rec.license
                                       /\ r.resp.license = rec.license
                 ELSE /\ t.resp.status = IF past(rec) THEN "TrialAlreadyUsed" ELSE "ok"
                      /\ r.resp.status = IF past(rec) THEN "Expired" ELSE "ok"
    /\ \A i \in 1..Len(licenses) :
           LET k == licenses[i].key
               rec == licenses[i].rec
               m == rec.active_mids[1]
               v == validate(k, m, rec.product)
               s == self_recover(k, rec.email, M2, rec.product)
               pl == pull_license(rec.email, m, rec.product)
           IN /\ v.status = IF past(rec) THEN "Expired" ELSE "valid"
              /\ past(rec) <=> s.resp.status = "Expired"
              /\ past(rec) => pl.resp.license # k
              /\ (~past(rec) /\ first_candidate(rec.email, rec.product) = i)
                     => pl.resp.status = "ok" /\ pl.resp.license = k

(* At the expiry instant of a trial record and of a paid record, a pull on the
   paid record has just succeeded *)
C21_Witness ==
    /\ resp.op = "pull_license"
    /\ resp.status = "ok"
    /\ has_trial(M1)
    /\ now = fromisoformat(trials[M1].expires_at).t
    /\ Len(licenses) = 1
    /\ now = fromisoformat(licenses[1].rec.expires_at).t

----------------------------------------------------------------------------
(* Concurrent requests on the paid registry *)

seat_cap(rec) == IF rec.seats_total = 0 THEN 1 ELSE rec.seats_total

(* A finished pull that seated its machine in its own copy of the registry *)
pulled_seat(i) ==
    /\ i \in DOMAIN inflight
    /\ inflight[i].pc = "done"
    /\ inflight[i].resp.op = "pull_license"
    /\ inflight[i].resp.status = "ok"
    /\ inflight[i].saves

(* Two pulls by distinct machines that each saw the one free seat of the same
   license, took it and answered ok *)
seat_race(i, j) ==
    /\ i # j
    /\ pulled_seat(i)
    /\ pulled_seat(j)
    /\ inflight[i].resp.license = inflight[j].resp.license
    /\ inflight[i].resp.machine_id # inflight[j].resp.machine_id
    /\ seats_used(db_get(inflight[i].ldata, inflight[i].resp.license))
           = seat_cap(db_get(inflight[i].ldata, inflight[i].resp.license))
    /\ seats_used(db_get(inflight[j].ldata, inflight[j].resp.license))
           = seat_cap(db_get(inflight[j].ldata, inflight[j].resp.license))

(* C22 as stated: after two concurrent pulls by distinct machines have both
   taken the one free seat of a license and succeeded, the persisted record
   holds more machines than seats_total *)
C22_RaceExceedsCap ==
    \A i, j \in Slots :
        seat_race(i, j) =>
            /\ has_key(licenses, inflight[i].resp.license)
            /\ seats_used(db_get(licenses, inflight[i].resp.license))
                   > seat_cap(db_get(licenses, inflight[i].resp.license))

(* C22 amended: under every interleaving of loads and saves the persisted seat
   list of a record stays within its seat cap; after the race the file holds
   the copy of one of the two writers, so exactly one of the two machines that
   were answered ok is seated in the persisted record *)
C22_RaceLosesSeat ==
    /\ \A n \in 1..Len(licenses) :
           seats_used(licenses[n].rec) <= seat_cap(licenses[n].rec)
    /\ \A i, j \in Slots :
           seat_race(i, j) =>
               /\ licenses \in {inflight[i].ldata, inflight[j].ldata}
               /\ Contains(db_get(licenses, inflight[i].resp.license).active_mids,
                           inflight[i].resp.machine_id)
                      # Contains(db_get(licenses, inflight[i].resp.license).active_mids,
                                  inflight[j].resp.machine_id)

C22_Witness == seat_race(1, 2)

(* A finished request that wrote a record, and the key of that record *)
wrote(i) ==
    /\ i \in DOMAIN inflight
    /\ inflight[i].pc = "done"
    /\ inflight[i].saves

key_written(i) ==
    IF inflight[i].resp.op = "trial"
    THEN <<"trials", inflight[i].resp.machine_id>>
    ELSE <<"licenses", inflight[i].resp.license>>

(* The record a finished request wrote is on file as it wrote it *)
update_on_file(i) ==
    IF inflight[i].resp.op = "trial"
    THEN /\ has_trial(inflight[i].resp.machine_id)
         /\ trials[inflight[i].resp.machine_id]
                = inflight[i].tdata[inflight[i].resp.machine_id]
    ELSE /\ has_key(licenses, inflight[i].resp.license)
         /\ db_get(licenses, inflight[i].resp.license)
                = db_get(inflight[i].ldata, inflight[i].resp.license)

(* C23: a finished request's update to its key is on file whenever no other
   request in flight touches the same key, as it would be after running the
   requests one after the other in some order *)
C23_NoLostUpdate ==
    \A i \in Slots :
        (/\ wrote(i)
         /\ \A j \in DOMAIN inflight \ {i} :
                inflight[j].saves => key_written(j) # key_written(i))
            => update_on_file(i)

----------------------------------------------------------------------------
(* Notifier *)

(* C24: what requestTrial persists and what it answers do not depend on what
   the notifier does: sent, rejected, unreachable or disabled give the same
   ledger and the same response *)
C24_NotifierInvisible ==
    Idle =>
        \A m \in {M1, O1}, p \in {P}, e \in TrialEmails, a, b \in MailOutcomes :
            /\ trial("trial", m, p, e, a).trials = trial("trial", m, p, e, b).trials
            /\ trial("trial", m, p, e, a).resp = trial("trial", m, p, e, b).resp

----------------------------------------------------------------------------
(* Rebind frame *)

recovered(r) == r.op = "self_recover" /\ r.status = "recovered"

(* C25: a successful selfRecover leaves, under the new token, a record whose
   seat list is exactly the new machine and whose last_change_at is the rebind
   time, with product, email, seats_total, issued_at and expires_at of the old
   record; every other machine gets SeatNotBound when it validates the new
   token *)
C25_RebindFrame ==
    /\ [](recovered(resp) =>
            /\ has_key(licenses, resp.license)
            /\ db_get(licenses, resp.license).active_mids = <<resp.machine_id>>
            /\ db_get(licenses, resp.license).last_change_at = isoformat(utcnow)
            /\ \A m \in PaidMids \ {resp.machine_id} :
                   validate(resp.license, m, resp.product).status = "SeatNotBound")
    /\ [][(Idle /\ recovered(resp')) =>
             \E k \in retired' \ retired :
                 /\ has_key(licenses, k)
                 /\ ~has_key(licenses', k)
                 /\ LET old == db_get(licenses, k)
                        new == db_get(licenses', resp'.license)
                    IN /\ new.product = old.product
                       /\ new.email = old.email
                       /\ new.email = email_norm(old.email)
                       /\ new.seats_total = old.seats_total
                       /\ new.issued_at = old.issued_at
                       /\ new.expires_at = old.expires_at]_vars

(* A rebind to M2 of a license activated for M1, which the new token now refuses *)
C25_Witness ==
    /\ recovered(resp)
    /\ resp.machine_id = M2
    /\ origin[resp.license].root \in retired
    /\ validate(resp.license, M1, resp.product).status = "SeatNotBound"

----------------------------------------------------------------------------
(* The two stores *)

PaidOps ==
    {"activate", "pull_license", "self_recover", "admin_delete_license",
     "admin_delete_by_mid", "admin_delete_by_key"}

LedgerOps == {"trial", "recover_license", "admin_reset_trial"}

(* C26: a step of activate, pull_license, self_recover or an admin deletion
   leaves the trial ledger as it was, and a step of trial, recover_license or
   admin_reset_trial leaves the paid registry as it was, whatever either store
   holds for the machine *)
C26_StoresIndependent ==
    [][/\ (Idle /\ resp'.op \in PaidOps) => trials' = trials
       /\ (Idle /\ resp'.op \in LedgerOps) => licenses' = licenses]_vars

(* M1 has just lost its paid record to a deletion by machine id and still has
   its trial record *)
C26_Witness ==
    /\ resp.op = "admin_delete_by_mid"
    /\ resp.deleted # <<>>
    /\ has_trial(M1)
    /\ licenses = <<>>

(* M1 has just had its trial reset and still holds its paid seat *)
C26_WitnessReset ==
    /\ resp.op = "admin_reset_trial"
    /\ resp.status = "reset"
    /\ ~has_trial(M1)
    /\ \E i \in 1..Len(licenses) : Contains(licenses[i].rec.active_mids, M1)

----------------------------------------------------------------------------
(* Returned tokens *)

(* The token a ledger handler hands to machine m asking for product p is
   accepted by validate for m and p.  validate reads the ledger only for the
   plan it reports, so its verdict is the same before and after the handler
   has saved. *)
ledger_token_valid(o, m, p) ==
    o.resp.status = "ok" => validate(o.resp.license, m, p).status = "valid"

returned_ledger_tokens_valid ==
    Idle =>
        \A m \in TrialMids, p \in Products :
            /\ ledger_token_valid(trial("trial", m, p, NONE, "off"), m, p)
            /\ ledger_token_valid(recover_license(m, p), m, p)

(* The token a paid handler has just returned is accepted by validate for the
   machine and the product of the request (pull_license only answers from a
   record of the requested product) *)
returned_paid_tokens_valid ==
    /\ (resp.op = "activate" /\ resp.status = "activated")
           => validate(resp.license, resp.machine_id, resp.product).status = "valid"
    /\ (resp.op = "pull_license" /\ resp.status = "ok")
           => validate(resp.license, resp.machine_id,
                       db_get(licenses, resp.license).product).status = "valid"
    /\ recovered(resp)
           => validate(resp.license, resp.machine_id, resp.product).status = "valid"

(* C27: every token returned by a successful trial, recover_license, activate,
   pull_license or self_recover is valid, at that instant, for the requesting
   machine and the requested product *)
C27_ReturnedTokenValid ==
    /\ returned_ledger_tokens_valid
    /\ returned_paid_tokens_valid

----------------------------------------------------------------------------
(* Records and their tokens *)

(* Token t decodes, and to this expiry text *)
encodes_expiry(t, expires_at) ==
    /\ parse_license_ok(t)
    /\ parse_license(t).exp = as_utc(fromisoformat(expires_at))

(* C28: every paid record is stored under its own license field and its token
   decodes to the record's expires_at; every trial record's token decodes to
   the machine id it is stored under, the record's product and the record's
   expires_at *)
C28_RecordsAgree ==
    /\ \A i \in 1..Len(licenses) :
           /\ licenses[i].key = licenses[i].rec.license
           /\ encodes_expiry(licenses[i].key, licenses[i].rec.expires_at)
    /\ \A m \in DOMAIN trials :
           /\ encodes_expiry(trials[m].license, trials[m].expires_at)
           /\ parse_license(trials[m].license).machine_id = m
           /\ parse_license(trials[m].license).product = trials[m].product

----------------------------------------------------------------------------
(* Several records of one email *)

(* The live records of this email and product, in registry order *)
live_records(email, product) ==
    {i \in 1..Len(licenses) : live_match(licenses[i].rec, email, product)}

(* Record i is full and does not seat machine m *)
full_without(i, m) ==
    /\ ~Contains(licenses[i].rec.active_mids, m)
    /\ seats_used(licenses[i].rec) >= seat_cap(licenses[i].rec)

(* C29: whenever a request is taken, a pull whose first live record of the
   email and product is full and does not seat the machine fails with
   SeatLimitReached, reports that record's seats and leaves the registry as it
   is, whatever later records of the same email hold *)
C29_FirstRecordDecides ==
    Idle =>
        \A e \in PullEmails, m \in PaidMids, p \in Products :
            \A i \in live_records(e, p) :
                (/\ \A j \in live_records(e, p) : i <= j
                 /\ full_without(i, m))
                    => /\ pull_license(e, m, p).resp.status = "SeatLimitReached"
                       /\ pull_license(e, m, p).resp.active_mids
                              = licenses[i].rec.active_mids
                       /\ pull_license(e, m, p).licenses = licenses

(* M2 has just been refused on the full first record of the email while a later
   live record of the same email and product has a free seat *)
C29_Witness ==
    /\ resp.op = "pull_license"
    /\ resp.status = "SeatLimitReached"
    /\ \E i, j \in live_records(EmailA, P) :
           /\ i < j
           /\ \A k \in live_records(EmailA, P) : i <= k
           /\ full_without(i, M2)
           /\ resp.active_mids = licenses[i].rec.active_mids
           /\ ~full_without(j, M2)

====
